---- MODULE Spec2Model ----
(***************************************************************************)
(* ESP32-C5 auto flasher: _c5_flasher.py and c5_flasher.py.                *)
(*                                                                         *)
(* One run of main(): snapshot of the serial ports, wait for a new port,   *)
(* resolution of the firmware images in the directory, summary, operator   *)
(* confirmation, construction of the esptool argument list and the call    *)
(* of esptool.main.  Python strings are sequences of one-character         *)
(* strings, so that strip(), lower() and glob matching are computed.       *)
(* None is the empty sequence (every path the code handles is non-empty,   *)
(* and the code only tests None by truthiness and set membership).         *)
(* A path is modelled by its file name: both scripts join every name with  *)
(* the same fixed directory.                                               *)
(***************************************************************************)
EXTENDS Integers, Sequences, FiniteSets, TLC

(* ------------------------------ bounds ------------------------------- *)
NumPorts == 2
MaxSize == 2
MaxInputLen == 3
MaxPolls == 2

(* ------------------------- string literals --------------------------- *)
None == <<>>
NOT_FOUND == <<"N","O","T"," ","F","O","U","N","D">>
BOOTLOADER_BIN == <<"b","o","o","t","l","o","a","d","e","r",".","b","i","n">>
PARTITION_TABLE_BIN == <<"p","a","r","t","i","t","i","o","n","-","t","a","b","l","e",".","b","i","n">>
PARTITIONS_BIN == <<"p","a","r","t","i","t","i","o","n","s",".","b","i","n">>
OTA_DATA_INITIAL_BIN == <<"o","t","a","_","d","a","t","a","_","i","n","i","t","i","a","l",".","b","i","n">>
STAR_BIN == <<"*",".","b","i","n">>
APP_BIN == <<"a","p","p",".","b","i","n">>
FW_BIN == <<"f","w",".","b","i","n">>
HIDDEN_BIN == <<".","h",".","b","i","n">>
NOTES_TXT == <<"n","o","t","e","s",".","t","x","t">>

OPT_CHIP == <<"-","-","c","h","i","p">>
ESP32C5 == <<"e","s","p","3","2","c","5">>
OPT_PORT == <<"-","-","p","o","r","t">>
OPT_BAUD == <<"-","-","b","a","u","d">>
BAUD_921600 == <<"9","2","1","6","0","0">>
OPT_BEFORE == <<"-","-","b","e","f","o","r","e">>
DEFAULT_RESET == <<"d","e","f","a","u","l","t","_","r","e","s","e","t">>
OPT_AFTER == <<"-","-","a","f","t","e","r">>
HARD_RESET == <<"h","a","r","d","_","r","e","s","e","t">>
OPT_FLASH_MODE == <<"-","-","f","l","a","s","h","_","m","o","d","e">>
QIO == <<"q","i","o">>
OPT_FLASH_FREQ == <<"-","-","f","l","a","s","h","_","f","r","e","q">>
FREQ_80M == <<"8","0","m">>
OPT_FLASH_SIZE == <<"-","-","f","l","a","s","h","_","s","i","z","e">>
SIZE_4MB == <<"4","M","B">>
WRITE_FLASH == <<"w","r","i","t","e","_","f","l","a","s","h">>
OPT_Z == <<"-","z">>
OFF_0x0 == <<"0","x","0">>
OFF_0x2000 == <<"0","x","2","0","0","0">>
OFF_0x8000 == <<"0","x","8","0","0","0">>
OFF_0xd000 == <<"0","x","d","0","0","0">>
OFF_0x10000 == <<"0","x","1","0","0","0","0">>

OPT_H == <<"-","h">>
OPT_HELP == <<"-","-","h","e","l","p">>
DASH_DASH == <<"-","-">>
PYSERIAL == <<"p","y","s","e","r","i","a","l">>

UpperChars == <<"A","B","C","D","E","F","G","H","I","J","K","L","M","N","O","P","Q","R","S","T","U","V","W","X","Y","Z">>
LowerChars == <<"a","b","c","d","e","f","g","h","i","j","k","l","m","n","o","p","q","r","s","t","u","v","w","x","y","z">>
(* The 29 characters str.strip() removes (str.isspace): space, \t, \n, \r, *)
(* \f, the control characters 0x0B, 0x1C, 0x1D, 0x1E, 0x1F written as     *)
(* themselves, and the non-ASCII spaces, which a string of this module    *)
(* cannot hold and which are named by their code point.                   *)
Whitespace ==
    {" ", "\t", "\n", "\r", "\f", "", "", "", "", "",
     "U+0085", "U+00A0", "U+1680", "U+2000", "U+2001", "U+2002", "U+2003", "U+2004",
     "U+2005", "U+2006", "U+2007", "U+2008", "U+2009", "U+200A", "U+2028", "U+2029", "U+202F", "U+205F", "U+3000"}
DigitChars == <<"0","1","2","3","4","5","6","7","8","9">>

(* The two scripts of the repository. *)
V_ROOT == "_c5_flasher.py"
V_BINS == "c5_flasher.py"
Variants == {V_ROOT, V_BINS}

(* ------------------------- the environment --------------------------- *)
(* Serial port device names reported by serial.tools.list_ports.comports *)
PortName(i) == <<"C","O","M", DigitChars[i + 1]>>
Ports == {PortName(i) : i \in 1..NumPorts}
(* A machine on which the device is the only serial port that comes and goes. *)
DevicePort == {PortName(1)}

(* A directory entry: absent, a regular file of some byte size, or a    *)
(* sub-directory.                                                        *)
Absent == [kind |-> "absent", size |-> 0]
Dir == [kind |-> "dir", size |-> 0]
File(n) == [kind |-> "file", size |-> n]
Files == {File(n) : n \in 1..MaxSize}

Names == {BOOTLOADER_BIN, PARTITION_TABLE_BIN, PARTITIONS_BIN, OTA_DATA_INITIAL_BIN,
          APP_BIN, FW_BIN, HIDDEN_BIN, NOTES_TXT}

(* Directory contents the runs are explored on. *)
EntryChoices(n) ==
    CASE n = BOOTLOADER_BIN -> {Absent, File(1), Dir}
      [] n = PARTITION_TABLE_BIN -> {Absent, File(1)}
      [] n = PARTITIONS_BIN -> {Absent} \cup Files
      [] n = OTA_DATA_INITIAL_BIN -> {Absent, File(1)}
      [] n = APP_BIN -> {Absent} \cup Files
      [] n = FW_BIN -> {Absent, Dir} \cup Files
      [] n = HIDDEN_BIN -> {Absent, File(MaxSize)}
      [] n = NOTES_TXT -> {Absent, File(MaxSize)}
Directories ==
    {d \in [Names -> {Absent, Dir} \cup Files] :
        /\ \A n \in Names : d[n] \in EntryChoices(n)
        /\ ~(d[HIDDEN_BIN] # Absent /\ d[NOTES_TXT] # Absent)}

(* ------------------------- library functions ------------------------- *)
(* os.path.lexists / os.path.isfile / os.path.getsize on the directory *)
lexists(d, n) == n \in DOMAIN d /\ d[n].kind # "absent"
isfile(d, n) == n \in DOMAIN d /\ d[n].kind = "file"
getsize(d, n) == d[n].size

EndsWith(s, suffix) ==
    /\ Len(s) >= Len(suffix)
    /\ SubSeq(s, Len(s) - Len(suffix) + 1, Len(s)) = suffix

(* glob.glob(os.path.join(dir, pattern)) for the two shapes of pattern   *)
(* the code uses: a literal name (matches iff the path exists) and       *)
(* "*<suffix>" (fnmatch on the names of the directory, names starting    *)
(* with a dot are not matched by a pattern that does not start with one) *)
has_magic(pattern) == \E i \in 1..Len(pattern) : pattern[i] = "*"
glob(d, pattern) ==
    IF has_magic(pattern)
    THEN {n \in DOMAIN d : /\ lexists(d, n)
                           /\ n[1] # "."
                           /\ EndsWith(n, Tail(pattern))}
    ELSE {n \in DOMAIN d : lexists(d, n) /\ n = pattern}

(* str.lower() *)
lower_char(c) ==
    IF \E i \in 1..Len(UpperChars) : UpperChars[i] = c
    THEN LowerChars[CHOOSE i \in 1..Len(UpperChars) : UpperChars[i] = c]
    ELSE c
lower(s) == [i \in 1..Len(s) |-> lower_char(s[i])]

(* str.strip() *)
RECURSIVE lstrip(_)
lstrip(s) == IF s # <<>> /\ Head(s) \in Whitespace THEN lstrip(Tail(s)) ELSE s
RECURSIVE rstrip(_)
rstrip(s) == IF s # <<>> /\ s[Len(s)] \in Whitespace THEN rstrip(SubSeq(s, 1, Len(s) - 1)) ELSE s
strip(s) == rstrip(lstrip(s))

(* ------------------------------ state -------------------------------- *)
VARIABLES
    variant,        \* which script runs
    argv,           \* command-line arguments
    bins_dir_ok,    \* os.path.isdir(bins_dir) (c5_flasher.py)
    fs,             \* contents of the firmware directory
    pc,             \* position of main()
    existing_ports, \* baseline snapshot
    current_ports,  \* result of the last poll
    serial_port,    \* detected port, None before detection
    comports_calls, \* number of calls of comports() so far
    bootloader, partitions, ota_data, app_bin,
    confirm,        \* operator input read by input()
    esptool_args,   \* argument list built for esptool.main
    esptool_calls,  \* argument lists esptool.main was called with
    raised,         \* what the call of esptool.main raised
    out,            \* lines printed so far
    exit_code       \* process exit status, Running until the process ends

vars == <<variant, argv, bins_dir_ok, fs, pc, existing_ports, current_ports, serial_port,
          comports_calls, bootloader, partitions, ota_data, app_bin, confirm,
          esptool_args, esptool_calls, raised, out, exit_code>>

Running == -1

Line(msg, arg) == [msg |-> msg, arg |-> arg]


(* ------------------------- find_new_serial_port ---------------------- *)
(* new_ports = current_ports - existing_ports *)
new_ports_no_baseline(current, existing) == current
new_ports(current, existing) == current \ existing

(* ------------------------------ find_file ---------------------------- *)
(* First name of name_options that glob finds in the directory; a       *)
(* literal pattern has at most one match, which is files[0].            *)
RECURSIVE find_file(_, _)
find_file(name_options, d) ==
    IF name_options = <<>>
    THEN None
    ELSE LET files == glob(d, Head(name_options))
         IN IF files # {}
            THEN CHOOSE f \in files : TRUE
            ELSE find_file(Tail(name_options), d)

BootloaderNames == <<BOOTLOADER_BIN>>
PartitionNames == <<PARTITION_TABLE_BIN, PARTITIONS_BIN>>
OtaNames == <<OTA_DATA_INITIAL_BIN>>

(* ----------------------- application selection ----------------------- *)
(* exclude = {bootloader, partitions, ota_data} *)
exclude(b, p, o) == {b, p, o}

firmware_bins_no_exclude(d, excl) == {f \in glob(d, STAR_BIN) : isfile(d, f)}
(* firmware_bins = [f for f in all_bins if f not in exclude and isfile(f)] *)
firmware_bins(d, excl) == {f \in glob(d, STAR_BIN) : f \notin excl /\ isfile(d, f)}

(* max(firmware_bins, key=getsize): the first maximal element of the    *)
(* list; the order in which glob lists the directory is not fixed, so   *)
(* any maximal element can be the result.                                *)
min_by_size(d, bins) == {f \in bins : \A g \in bins : getsize(d, f) <= getsize(d, g)}
max_by_size(d, bins) == {f \in bins : \A g \in bins : getsize(d, g) <= getsize(d, f)}

(* not (bootloader and partitions) *)
missing_required_both(b, p) == ~(b # None \/ p # None)
missing_required_never(b, p) == FALSE
missing_required(b, p) == ~(b # None /\ p # None)

(* bootloader or 'NOT FOUND' *)
or_not_found_raw(path) == path
or_not_found(path) == IF path # None THEN path ELSE NOT_FOUND

(* confirm.strip().lower() != 'y' *)
declined_case_sensitive(answer) == strip(answer) # <<"y">>
declined_only_n(answer) == lower(strip(answer)) = <<"n">>
declined(answer) == lower(strip(answer)) # <<"y">>

(* --------------------------- esptool_args ---------------------------- *)
bootloader_offset(v) == IF v = V_ROOT THEN OFF_0x0 ELSE OFF_0x2000

connection_args(v, port) ==
    <<OPT_CHIP, ESP32C5, OPT_PORT, port, OPT_BAUD, BAUD_921600,
      OPT_BEFORE, DEFAULT_RESET, OPT_AFTER, HARD_RESET>>
    \o (IF v = V_ROOT
        THEN <<OPT_FLASH_MODE, QIO, OPT_FLASH_FREQ, FREQ_80M, OPT_FLASH_SIZE, SIZE_4MB>>
        ELSE <<>>)

build_esptool_args_always_ota(v, port, b, p, o, a) ==
    connection_args(v, port)
    \o <<WRITE_FLASH, OPT_Z, bootloader_offset(v), b, OFF_0x8000, p, OFF_0xd000, o, OFF_0x10000, a>>
build_esptool_args(v, port, b, p, o, a) ==
    connection_args(v, port)
    \o <<WRITE_FLASH, OPT_Z, bootloader_offset(v), b, OFF_0x8000, p>>
    \o (IF o # None THEN <<OFF_0xd000, o>> ELSE <<>>)
    \o <<OFF_0x10000, a>>

(* What a call of esptool.main can do: return, raise an Exception       *)
(* (esptool.FatalError, OSError, ...), or raise SystemExit (argparse    *)
(* rejecting the arguments, sys.exit inside the tool), which is not a   *)
(* subclass of Exception.                                                *)
EsptoolOutcomes == {"none", "Exception", "SystemExit", "KeyboardInterrupt"}
(* SystemExit carries the status the process ends with (None counts as *)
(* 0, a message as 1).                                                  *)
SystemExitStatuses == 0..2
(* An uncaught KeyboardInterrupt ends the process on SIGINT: 128 + 2.   *)
SIGINT_STATUS == 130

(* ------------------------------ Init --------------------------------- *)
Argvs == {<<>>, <<<<"-","-","h","e">>>>, <<PortName(1)>>, <<PortName(1), <<"-","h","h">>>>}

InitRun ==
    /\ pc = (IF variant = V_BINS THEN "import" ELSE "args")
    /\ argv \in Argvs
    /\ existing_ports = {}
    /\ current_ports = {}
    /\ serial_port = None
    /\ comports_calls = 0
    /\ bootloader = None
    /\ partitions = None
    /\ ota_data = None
    /\ app_bin = None
    /\ confirm = None
    /\ esptool_args = <<>>
    /\ esptool_calls = <<>>
    /\ raised = "none"
    /\ out = <<>>
    /\ exit_code = Running

Init ==
    /\ variant \in Variants
    /\ bins_dir_ok \in BOOLEAN
    /\ (variant = V_ROOT => bins_dir_ok)
    /\ fs \in Directories
    /\ InitRun

(* ------------------------------ actions ------------------------------ *)
Exit(status) == pc' = "done" /\ exit_code' = status

(* c5_flasher.py at import: ensure_requirements().  __import__ of the   *)
(* distribution name 'pyserial' raises ImportError (the module is named *)
(* serial), so the package is announced and pip is run on every start;  *)
(* check_call raises when pip fails and the process ends with status 1. *)
(* 'esptool' and 'colorama' were imported at the top of the file.       *)
ensure_requirements ==
    /\ pc = "import"
    /\ variant = V_BINS
    /\ out' = Append(out, Line("Installing missing package", PYSERIAL))
    /\ \E pip_ok \in BOOLEAN :
         IF pip_ok THEN pc' = "args" /\ UNCHANGED exit_code
         ELSE Exit(1)
    /\ UNCHANGED <<variant, argv, bins_dir_ok, fs, existing_ports, current_ports, serial_port,
                   comports_calls, bootloader, partitions, ota_data, app_bin, confirm,
                   esptool_args, esptool_calls, raised>>

(* parser.parse_args() of a parser that defines no argument of its own: *)
(* only -h/--help exist, and allow_abbrev is on.  The arguments are read *)
(* left to right.  A help flag prints the help and exits with status 0:  *)
(* -h, --help, an abbreviation --h, --he, --hel, a run of short flags    *)
(* -hh..., or -h=h....  An argument that matches the help flag but gives *)
(* it a value (--help=x, -hx, -h=) is an error at once, status 2.  Any   *)
(* other argument is unrecognized, an error (status 2) once all          *)
(* arguments are read; so is a lone "--", which also ends the options.   *)
StartsWith(s, prefix) == Len(s) >= Len(prefix) /\ SubSeq(s, 1, Len(prefix)) = prefix
AllH(x) == Len(x) > 0 /\ \A i \in 1..Len(x) : x[i] = "h"
HasEq(a) == \E i \in 1..Len(a) : a[i] = "="
BeforeEq(a) ==
    IF HasEq(a)
    THEN SubSeq(a, 1, (CHOOSE i \in 1..Len(a) : a[i] = "=" /\ \A k \in 1..(i - 1) : a[k] # "=") - 1)
    ELSE a
arg_kind(a) ==
    IF a \in {OPT_H, OPT_HELP} THEN "help"
    ELSE IF StartsWith(a, DASH_DASH)
    THEN IF StartsWith(OPT_HELP, BeforeEq(a))
         THEN (IF HasEq(a) THEN "bad" ELSE "help")
         ELSE "extra"
    ELSE IF StartsWith(a, OPT_H)
    THEN LET value == IF a[3] = "=" THEN SubSeq(a, 4, Len(a)) ELSE SubSeq(a, 3, Len(a))
         IN IF AllH(value) THEN "help" ELSE "bad"
    ELSE "extra"
RECURSIVE scan_args(_)
scan_args(args) ==
    IF args = <<>> THEN "end"
    ELSE IF Head(args) = DASH_DASH THEN "error"
    ELSE IF arg_kind(Head(args)) = "help" THEN "help"
    ELSE IF arg_kind(Head(args)) = "bad" THEN "error"
    ELSE scan_args(Tail(args))
parse_args(args) ==
    IF args = <<>> THEN "ok"
    ELSE IF scan_args(args) = "end" THEN "error" ELSE scan_args(args)

ParseArgs ==
    /\ pc = "args"
    /\ CASE parse_args(argv) = "ok" -> pc' = "start" /\ UNCHANGED <<out, exit_code>>
         [] parse_args(argv) = "help" -> out' = Append(out, Line("usage", None)) /\ Exit(0)
         [] parse_args(argv) = "error" -> out' = Append(out, Line("usage error", None)) /\ Exit(2)
    /\ UNCHANGED <<variant, argv, bins_dir_ok, fs, existing_ports, current_ports, serial_port,
                   comports_calls, bootloader, partitions, ota_data, app_bin, confirm,
                   esptool_args, esptool_calls, raised>>

(* main() up to the start of the wait: the bins directory check and the *)
(* splash of c5_flasher.py, the baseline snapshot, the waiting message. *)
Start(attachable) ==
    /\ pc = "start"
    /\ IF variant = V_BINS /\ ~bins_dir_ok
       THEN /\ out' = Append(out, Line("Bins directory not found", None))
            /\ Exit(1)
            /\ UNCHANGED <<existing_ports, comports_calls>>
       ELSE /\ \E snapshot \in SUBSET attachable : existing_ports' = snapshot
            /\ comports_calls' = comports_calls + 1
            /\ out' = (IF variant = V_BINS THEN Append(out, Line("Splash", None)) ELSE out)
                      \o <<Line("Waiting", None)>>
            /\ pc' = "wait_port"
            /\ UNCHANGED exit_code
    /\ UNCHANGED <<variant, argv, bins_dir_ok, fs, current_ports, serial_port, bootloader,
                   partitions, ota_data, app_bin, confirm, esptool_args, esptool_calls, raised>>

(* One iteration of the polling loop. *)
Poll(attachable) ==
    /\ pc = "wait_port"
    /\ comports_calls <= MaxPolls
    /\ \E polled \in SUBSET attachable :
         /\ current_ports' = polled
         /\ comports_calls' = comports_calls + 1
         /\ IF new_ports(polled, existing_ports) # {}
            THEN /\ \E popped \in new_ports(polled, existing_ports) : serial_port' = popped
                 /\ out' = Append(out, Line("Detected", serial_port'))
                 /\ pc' = "resolve"
            ELSE /\ UNCHANGED <<serial_port, out, pc>>
    /\ UNCHANGED <<variant, argv, bins_dir_ok, fs, existing_ports, bootloader, partitions,
                   ota_data, app_bin, confirm, esptool_args, esptool_calls, raised, exit_code>>

(* Role matching and application image selection. *)
Resolve ==
    /\ pc = "resolve"
    /\ bootloader' = find_file(BootloaderNames, fs)
    /\ partitions' = find_file(PartitionNames, fs)
    /\ ota_data' = find_file(OtaNames, fs)
    /\ LET bins == firmware_bins(fs, exclude(bootloader', partitions', ota_data'))
       IN IF bins = {}
          THEN /\ out' = Append(out, Line("No application firmware", None))
               /\ Exit(1)
               /\ UNCHANGED app_bin
          ELSE /\ \E f \in max_by_size(fs, bins) : app_bin' = f
               /\ pc' = "summary"
               /\ UNCHANGED <<out, exit_code>>
    /\ UNCHANGED <<variant, argv, bins_dir_ok, fs, existing_ports, current_ports, serial_port,
                   comports_calls, confirm, esptool_args, esptool_calls, raised>>

(* Summary of the four roles and the required-image check. *)
Summary ==
    /\ pc = "summary"
    /\ LET report == out \o <<Line("Bootloader", or_not_found(bootloader)),
                              Line("Partitions", or_not_found(partitions)),
                              Line("OTA Data", or_not_found(ota_data)),
                              Line("App (main)", app_bin)>>
       IN IF missing_required(bootloader, partitions)
          THEN /\ out' = Append(report, Line("Missing bootloader or partition table", None))
               /\ Exit(1)
          ELSE /\ out' = report
               /\ pc' = "confirm"
               /\ UNCHANGED exit_code
    /\ UNCHANGED <<variant, argv, bins_dir_ok, fs, existing_ports, current_ports, serial_port,
                   comports_calls, bootloader, partitions, ota_data, app_bin, confirm,
                   esptool_args, esptool_calls, raised>>

(* The confirmation prompt, answered with the line typed by the operator. *)
Confirm(answer) ==
    /\ pc = "confirm"
    /\ confirm' = answer
    /\ IF declined(answer)
       THEN /\ out' = out \o <<Line("Ready to flash", None), Line("Aborting", None)>>
            /\ Exit(0)
       ELSE /\ out' = Append(out, Line("Ready to flash", None))
            /\ pc' = "flash"
            /\ UNCHANGED exit_code
    /\ UNCHANGED <<variant, argv, bins_dir_ok, fs, existing_ports, current_ports, serial_port,
                   comports_calls, bootloader, partitions, ota_data, app_bin,
                   esptool_args, esptool_calls, raised>>

(* Argument list, the call of esptool.main and the except clause. *)
Flash ==
    /\ pc = "flash"
    /\ esptool_args' = build_esptool_args(variant, serial_port, bootloader, partitions,
                                          ota_data, app_bin)
    /\ esptool_calls' = Append(esptool_calls, esptool_args')
    /\ \E outcome \in EsptoolOutcomes :
         /\ raised' = outcome
         /\ CASE outcome = "none" ->
                   /\ out' = out \o <<Line("Flashing", None), Line("Flashing complete", None)>>
                   /\ Exit(0)
              [] outcome = "Exception" ->
                   /\ out' = out \o <<Line("Flashing", None), Line("Flashing failed", None)>>
                   /\ Exit(0)
              [] outcome = "SystemExit" ->
                   /\ out' = Append(out, Line("Flashing", None))
                   /\ \E status \in SystemExitStatuses : Exit(status)
              [] outcome = "KeyboardInterrupt" ->
                   /\ out' = out \o <<Line("Flashing", None), Line("KeyboardInterrupt", None)>>
                   /\ Exit(SIGINT_STATUS)
    /\ UNCHANGED <<variant, argv, bins_dir_ok, fs, existing_ports, current_ports, serial_port,
                   comports_calls, bootloader, partitions, ota_data, app_bin, confirm>>

(* The prompt on a closed standard input: input() prints the prompt and *)
(* raises EOFError, which nothing catches.                               *)
ConfirmEOF ==
    /\ pc = "confirm"
    /\ out' = out \o <<Line("Ready to flash", None), Line("EOFError", None)>>
    /\ Exit(1)
    /\ UNCHANGED <<variant, argv, bins_dir_ok, fs, existing_ports, current_ports, serial_port,
                   comports_calls, bootloader, partitions, ota_data, app_bin, confirm,
                   esptool_args, esptool_calls, raised>>

(* Operator answers explored with every directory. *)
PromptAnswers == {<<"y">>, <<"Y">>, <<" ","y"," ">>, <<"n">>, <<>>, <<"y","e","s">>}

ConfirmPrompt == \E answer \in PromptAnswers : Confirm(answer)

Next ==
    \/ ensure_requirements
    \/ ParseArgs
    \/ Start(DevicePort)
    \/ Poll(DevicePort)
    \/ Resolve
    \/ Summary
    \/ ConfirmPrompt
    \/ ConfirmEOF
    \/ Flash

Spec == Init /\ [][Next]_vars


(* ------------- the prompt explored on every typed line --------------- *)
(* Every line of at most MaxInputLen characters over AnswerChars, on a  *)
(* few directories.                                                      *)
AnswerChars == {"y", "Y", "n", "e", "s", " ", "\f", "U+00A0"}
RECURSIVE Lines(_)
Lines(n) ==
    IF n = 0 THEN {<<>>}
    ELSE Lines(n - 1) \cup {Append(s, c) : s \in {t \in Lines(n - 1) : Len(t) = n - 1}, c \in AnswerChars}
TypedAnswers == Lines(MaxInputLen)

EmptyDirectory == [n \in Names |-> Absent]
CompleteDirectory ==
    [EmptyDirectory EXCEPT ![BOOTLOADER_BIN] = File(1), ![PARTITION_TABLE_BIN] = File(1),
                           ![APP_BIN] = File(MaxSize)]
PromptDirectories ==
    {EmptyDirectory, CompleteDirectory,
     [CompleteDirectory EXCEPT ![BOOTLOADER_BIN] = Absent],
     [CompleteDirectory EXCEPT ![OTA_DATA_INITIAL_BIN] = File(1)]}

InitConfirm ==
    /\ variant \in Variants
    /\ bins_dir_ok \in BOOLEAN
    /\ (variant = V_ROOT => bins_dir_ok)
    /\ fs \in PromptDirectories
    /\ InitRun

ConfirmTyped == \E answer \in TypedAnswers : Confirm(answer)

NextConfirm ==
    \/ ensure_requirements
    \/ ParseArgs
    \/ Start(DevicePort)
    \/ Poll(DevicePort)
    \/ Resolve
    \/ Summary
    \/ ConfirmTyped
    \/ ConfirmEOF
    \/ Flash

SpecConfirm == InitConfirm /\ [][NextConfirm]_vars

(* ------------- the wait explored on every set of ports --------------- *)
NextPorts ==
    \/ ensure_requirements
    \/ ParseArgs
    \/ Start(Ports)
    \/ Poll(Ports)
    \/ Resolve
    \/ Summary
    \/ ConfirmPrompt
    \/ ConfirmEOF
    \/ Flash

SpecPorts == InitConfirm /\ [][NextPorts]_vars

(* ===================================================================== *)
(* Properties                                                            *)
(* ===================================================================== *)
Printed(msg) == \E i \in 1..Len(out) : out[i].msg = msg
PrintedAt(msg) == CHOOSE i \in 1..Len(out) : out[i].msg = msg
Invoked == esptool_calls # <<>>

(* The directory as the properties read it, without the program's       *)
(* functions.                                                            *)
Present(n) == fs[n].kind # "absent"
Regular(n) == fs[n].kind = "file"
IsBinName(n) == Len(n) >= 4 /\ n[Len(n) - 3] = "." /\ n[Len(n) - 2] = "b"
                /\ n[Len(n) - 1] = "i" /\ n[Len(n)] = "n" /\ n[1] # "."
RoleNames == {BOOTLOADER_BIN, PARTITION_TABLE_BIN, PARTITIONS_BIN, OTA_DATA_INITIAL_BIN}
PartitionRoleFile ==
    IF Present(PARTITION_TABLE_BIN) THEN {PARTITION_TABLE_BIN}
    ELSE IF Present(PARTITIONS_BIN) THEN {PARTITIONS_BIN} ELSE {}
Assigned ==
    {n \in {BOOTLOADER_BIN, OTA_DATA_INITIAL_BIN} : Present(n)} \cup PartitionRoleFile
Unassigned == {n \in Names : IsBinName(n) /\ Regular(n) /\ n \notin Assigned}
LacksRequired == ~Present(BOOTLOADER_BIN) \/ (~Present(PARTITION_TABLE_BIN) /\ ~Present(PARTITIONS_BIN))
Resolved == pc \in {"summary", "confirm", "flash"} \/ (pc = "done" /\ serial_port # None)

(* A line that is "y" or "Y" between runs of white space. *)
SpaceCharacters ==
    {" ", "\t", "\n", "\r", "\f", "", "", "", "", "",
     "U+0085", "U+00A0", "U+1680", "U+2000", "U+2001", "U+2002", "U+2003", "U+2004",
     "U+2005", "U+2006", "U+2007", "U+2008", "U+2009", "U+200A", "U+2028", "U+2029", "U+202F", "U+205F", "U+3000"}
Affirmative(s) ==
    \E i \in 1..Len(s) : /\ s[i] \in {"y", "Y"}
                         /\ \A j \in 1..Len(s) : j # i => s[j] \in SpaceCharacters

(* The (offset, file) pairs of an argument list: what follows -z. *)
PairsOf(args) ==
    LET z == CHOOSE i \in 1..Len(args) : args[i] = OPT_Z
    IN [j \in 1..((Len(args) - z) \div 2) |-> <<args[z + 2 * j - 1], args[z + 2 * j]>>]

(* C1: whenever the flashing tool is invoked, the (offset, file) pairs  *)
(* are exactly, in order, the bootloader at 0x0 (_c5_flasher.py) or     *)
(* 0x2000 (c5_flasher.py), the partition table at 0x8000, the OTA data  *)
(* at 0xd000 iff the directory has an OTA data file, the application at *)
(* 0x10000; no pair carries None.                                        *)
C1_OffsetTable ==
    \A k \in 1..Len(esptool_calls) :
      LET args == esptool_calls[k]
          pairs == PairsOf(args)
          ota == Present(OTA_DATA_INITIAL_BIN)
          n == Len(pairs)
      IN /\ \E i \in 1..Len(args) : args[i] = OPT_Z
         /\ (Len(args) - (CHOOSE i \in 1..Len(args) : args[i] = OPT_Z)) % 2 = 0
         /\ n = (IF ota THEN 4 ELSE 3)
         /\ pairs[1] = <<(IF variant = "_c5_flasher.py" THEN <<"0","x","0">> ELSE <<"0","x","2","0","0","0">>),
                         BOOTLOADER_BIN>>
         /\ pairs[2][1] = <<"0","x","8","0","0","0">>
         /\ pairs[2][2] \in PartitionRoleFile
         /\ (ota => pairs[3] = <<<<"0","x","d","0","0","0">>, OTA_DATA_INITIAL_BIN>>)
         /\ pairs[n] = <<<<"0","x","1","0","0","0","0">>, app_bin>>
         /\ app_bin \in Unassigned
         /\ \A j \in 1..n : pairs[j][2] # None

C1_Witness ==
    /\ Len(esptool_calls) = 1
    /\ Present(OTA_DATA_INITIAL_BIN)
    /\ variant = V_BINS
    /\ Len(PairsOf(esptool_calls[1])) = 4

(* C4: once the prompt is answered with a line, the run goes on to flashing iff the *)
(* typed line is "y" or "Y" surrounded by whitespace only; on any other *)
(* line the process has exited with status 0 and the flashing tool is   *)
(* not invoked.                                                          *)
C4_ConfirmExactY ==
    (Printed("Ready to flash") /\ ~Printed("EOFError")) =>
        /\ Affirmative(confirm) <=> (pc = "flash" \/ Invoked)
        /\ ~Affirmative(confirm) => (pc = "done" /\ exit_code = 0 /\ ~Invoked /\ Printed("Aborting"))

C4_Witness ==
    /\ Printed("Ready to flash")
    /\ confirm = <<"\f", "Y", "U+00A0">>
    /\ Invoked

(* C7: a selected application image is a regular *.bin file of the      *)
(* directory, is none of the files assigned to the bootloader,          *)
(* partition-table and OTA-data roles, and no other unassigned regular  *)
(* *.bin file is larger.                                                 *)
C7_AppLargestUnassigned ==
    app_bin # None =>
        /\ app_bin \in Names
        /\ Regular(app_bin)
        /\ IsBinName(app_bin)
        /\ app_bin \notin {bootloader, partitions, ota_data}
        /\ app_bin \notin Assigned
        /\ \A n \in Unassigned : fs[n].size <= fs[app_bin].size

C7_Witness ==
    /\ app_bin = FW_BIN
    /\ Regular(APP_BIN)
    /\ fs[APP_BIN].size < fs[FW_BIN].size
    /\ Present(PARTITION_TABLE_BIN)
    /\ Regular(PARTITIONS_BIN)
    /\ bootloader = BOOTLOADER_BIN


(* C2 as stated: a run on a directory without a bootloader file or      *)
(* without a partition-table file ends with the 'Missing bootloader or  *)
(* partition table' report and exit status 1, whatever else the         *)
(* directory contains.                                                   *)
C2_AsStated ==
    (pc = "done" /\ serial_port # None /\ LacksRequired) =>
        (exit_code = 1 /\ Printed("Missing bootloader or partition table"))

(* C2 amended: such a run, once a port is detected, ends with exit      *)
(* status 1; with the 'Missing    *)
(* bootloader or partition table' report when the directory has a       *)
(* regular *.bin file that is not assigned to a role, and with the 'No  *)
(* application firmware' report alone when it has none.                  *)
C2_MissingRequired ==
    (pc = "done" /\ serial_port # None /\ LacksRequired) =>
        /\ exit_code = 1
        /\ IF Unassigned # {}
           THEN Printed("Missing bootloader or partition table") /\ ~Printed("No application firmware")
           ELSE Printed("No application firmware") /\ ~Printed("Missing bootloader or partition table")

C2_Witness ==
    /\ pc = "done"
    /\ Present(BOOTLOADER_BIN)
    /\ LacksRequired
    /\ Unassigned # {}
    /\ Printed("Missing bootloader or partition table")

(* C3 as stated: when every *.bin entry of the directory has a role     *)
(* candidate name, resolution ends with the no-application failure      *)
(* (exit status 1) and no application image is selected.                 *)
OnlyRoleNamed == \A n \in Names : (Present(n) /\ IsBinName(n)) => n \in RoleNames
C3_AsStated ==
    (Resolved /\ OnlyRoleNamed) =>
        (pc = "done" /\ exit_code = 1 /\ Printed("No application firmware") /\ app_bin = None)

(* C3 amended: when every regular *.bin file of the directory is        *)
(* assigned to a role, resolution ends with the no-application failure  *)
(* (exit status 1) and no application image is selected; when both      *)
(* partition-table.bin and partitions.bin exist, partitions.bin is not  *)
(* assigned, and with only role-named entries it is the application.    *)
C3_NoApplication ==
    Resolved =>
        /\ Unassigned = {} =>
             (pc = "done" /\ exit_code = 1 /\ Printed("No application firmware") /\ app_bin = None)
        /\ (OnlyRoleNamed /\ Present(PARTITION_TABLE_BIN) /\ Regular(PARTITIONS_BIN)) =>
             (app_bin = PARTITIONS_BIN /\ ~Printed("No application firmware"))

C3_Witness ==
    /\ Resolved
    /\ Unassigned = {}
    /\ Regular(BOOTLOADER_BIN)
    /\ Present(PARTITIONS_BIN)
    /\ Present(OTA_DATA_INITIAL_BIN)
    /\ Printed("No application firmware")

(* C5 as stated: a run on a directory without a bootloader or without a *)
(* partition table exits with status 1 before any device interaction,   *)
(* neither a serial-port query nor a call of the flashing tool.          *)
C5_AsStated ==
    (pc = "done" /\ serial_port # None /\ LacksRequired) =>
        (exit_code = 1 /\ comports_calls = 0 /\ ~Invoked)

(* C5 amended: such a run never calls the flashing tool and exits with  *)
(* status 1; by then the serial ports were queried for the baseline and *)
(* polled, and a new port was detected.                                  *)
C5_ExitBeforeFlash ==
    /\ LacksRequired => (~Invoked /\ pc # "flash")
    /\ (pc = "done" /\ serial_port # None /\ LacksRequired) => exit_code = 1
    /\ (Printed("Missing bootloader or partition table") \/ Printed("No application firmware")) =>
         /\ exit_code = 1
         /\ ~Invoked
         /\ comports_calls >= 2
         /\ serial_port \in current_ports \ existing_ports

C5_Witness ==
    /\ pc = "done"
    /\ Printed("Missing bootloader or partition table")
    /\ LacksRequired
    /\ ~Present(PARTITION_TABLE_BIN)
    /\ exit_code = 1
    /\ comports_calls = 3

(* C6: every error raised by esptool.main is caught and reported as     *)
(* 'Flashing failed'; the run ends with exit status 0 and the tool was  *)
(* called once.                                                          *)
C6_FlashErrorsCaught ==
    (Invoked /\ raised # "none") =>
        (pc = "done" /\ Printed("Flashing failed") /\ exit_code = 0 /\ Len(esptool_calls) = 1)

(* C8: a poll whose port set has an identifier outside the baseline     *)
(* ends the wait with one of these identifiers; a poll whose port set   *)
(* is within the baseline leaves the run waiting, with no port.          *)
C8_PortWait ==
    /\ [][(pc = "wait_port" /\ comports_calls' # comports_calls) =>
            IF current_ports' \ existing_ports # {}
            THEN /\ pc' = "resolve"
                 /\ serial_port' \in current_ports'
                 /\ serial_port' \notin existing_ports
                 /\ existing_ports' = existing_ports
            ELSE /\ pc' = "wait_port"
                 /\ serial_port' = None]_vars
    /\ [](pc \in {"import", "args", "start", "wait_port"} => serial_port = None)
    /\ [](pc \in {"resolve", "summary", "confirm", "flash"} => serial_port \in Ports \ existing_ports)
    /\ [](serial_port # None => serial_port \in current_ports \ existing_ports)

C8_Witness ==
    /\ pc = "resolve"
    /\ comports_calls = 3
    /\ existing_ports # {}
    /\ existing_ports \subseteq current_ports
    /\ serial_port \in current_ports \ existing_ports

(* C9: the position of a run only moves forward, one phase at a time or *)
(* to the end; it ends early only on missing files (status 1) or on a   *)
(* declined prompt (status 0); the flashing tool is called at most      *)
(* once, and only with a detected port, a bootloader, a partition       *)
(* table, an application image and an affirmative answer.                *)
Rank(p) ==
    CASE p = "import" -> -2
      [] p = "args" -> -1
      [] p = "start" -> 0
      [] p = "wait_port" -> 1
      [] p = "resolve" -> 2
      [] p = "summary" -> 3
      [] p = "confirm" -> 4
      [] p = "flash" -> 5
      [] p = "done" -> 6
C9_ForwardOnly ==
    /\ [][pc' # pc =>
            /\ Rank(pc') = Rank(pc) + 1 \/ pc' = "done"
            /\ (pc' = "done" /\ pc \in {"start", "resolve", "summary"}) => exit_code' = 1
            /\ (pc' = "done" /\ pc = "confirm") =>
                 \/ exit_code' = 0 /\ ~Affirmative(confirm') /\ out'[Len(out')].msg = "Aborting"
                 \/ exit_code' = 1 /\ out'[Len(out')].msg = "EOFError" /\ confirm' = confirm
            /\ (pc' = "done") <=> (exit_code' # Running)]_vars
    /\ [][esptool_calls' # esptool_calls =>
            (pc = "flash" /\ esptool_calls = <<>> /\ Len(esptool_calls') = 1)]_vars
    /\ [](Invoked =>
            /\ serial_port \in Ports
            /\ Present(BOOTLOADER_BIN) /\ bootloader = BOOTLOADER_BIN
            /\ partitions \in PartitionRoleFile
            /\ app_bin \in Unassigned
            /\ Affirmative(confirm)
            /\ Printed("Detected") /\ Printed("App (main)") /\ Printed("Ready to flash"))

C9_Witness ==
    /\ pc = "done"
    /\ Invoked
    /\ raised = "Exception"
    /\ confirm = <<"Y">>

(* C10 as stated: on every run on a directory without a bootloader or   *)
(* without a partition table, the status of both roles is reported      *)
(* before the process fails.                                             *)
C10_AsStated ==
    (pc = "done" /\ serial_port # None /\ LacksRequired) =>
        (Printed("Bootloader") /\ Printed("Partitions"))

(* C10 amended: the missing-required-image failure happens only after   *)
(* an application image was selected, and after the found/NOT FOUND     *)
(* status of the bootloader and of the partition table was reported; a  *)
(* run on a directory with no application candidate fails before, with  *)
(* no status reported.                                                   *)
C10_ReportBeforeFailing ==
    /\ Printed("Missing bootloader or partition table") =>
         /\ app_bin \in Unassigned
         /\ LacksRequired
         /\ LET m == PrintedAt("Missing bootloader or partition table")
            IN \E i, j \in 1..(m - 1) :
                 /\ i < j
                 /\ out[i].msg = "Bootloader"
                 /\ out[i].arg = (IF Present(BOOTLOADER_BIN) THEN BOOTLOADER_BIN
                                  ELSE <<"N","O","T"," ","F","O","U","N","D">>)
                 /\ out[j].msg = "Partitions"
                 /\ out[j].arg = (IF Present(PARTITION_TABLE_BIN) THEN PARTITION_TABLE_BIN
                                  ELSE IF Present(PARTITIONS_BIN) THEN PARTITIONS_BIN
                                  ELSE <<"N","O","T"," ","F","O","U","N","D">>)
    /\ (pc = "done" /\ serial_port # None /\ LacksRequired) =>
         \/ Printed("Missing bootloader or partition table")
         \/ (Unassigned = {} /\ Printed("No application firmware") /\ ~Printed("Bootloader")
             /\ ~Printed("Partitions"))

C10_Witness ==
    /\ pc = "done"
    /\ Printed("Missing bootloader or partition table")
    /\ ~Present(BOOTLOADER_BIN)
    /\ Present(PARTITIONS_BIN)
    /\ app_bin # None

====
